---- MODULE Spec2Model ----
(***************************************************************************)
(* Model of the BitVM proof builder: the rollup block store, the commit    *)
(* history, the fetch from the content store, the challenge watcher        *)
(* (src/BitVM.py), and the SHA-256 step chain builder with the script that *)
(* builds the challenge leaves and spends (src/PSBTgen.py).                *)
(*                                                                         *)
(* Python values are tagged tuples whose first element names the type:     *)
(*   <<"none">>, <<"bool", b>>, <<"num", n>>, <<"str", enc, payload>>,     *)
(*   <<"list", seq>>, <<"tuple", seq>>, <<"dict", seq of <<key, value>>>>. *)
(* A dict keeps its insertion order, as Python's does.  A str carries the  *)
(* way its characters read: "lower"/"upper" are hex digits spelling the    *)
(* byte string numbered by the payload, "nonhex" is a text bytes.fromhex   *)
(* rejects, any other enc is opaque text.  Byte strings are naturals.      *)
(* SHA-256 is an injective function without cycles on them (no collision   *)
(* and no cycle of SHA-256 is known).                                      *)
(***************************************************************************)
EXTENDS Integers, Sequences, FiniteSets, TLC

\* ---------------------------------------------------------------- bounds
MaxChainLen == 3
MaxSeed == 1
MaxSteps == 3
MaxBlocks == 2
MaxHistory == 2
MaxTime == 1

\* ------------------------------------------------------ Python values
PyNone == <<"none">>
PyBool(b) == <<"bool", b>>
PyNum(n) == <<"num", n>>
PyStr(enc, payload) == <<"str", enc, payload>>
PyList(s) == <<"list", s>>
PyTuple(s) == <<"tuple", s>>
PyDict(pairs) == <<"dict", pairs>>

Lower(n) == PyStr("lower", n)
Upper(n) == PyStr("upper", n)
NonHex == PyStr("nonhex", 0)
Text(s) == PyStr("text", s)
EmptyStr == PyStr("text", "")

\* bool(v): Python truthiness
Truthy(v) ==
    CASE v[1] = "none" -> FALSE
      [] v[1] = "bool" -> v[2]
      [] v[1] = "num" -> v[2] # 0
      [] v[1] = "str" -> v # EmptyStr
      [] OTHER -> Len(v[2]) > 0

\* d.get(key, default)
DictGet(d, key, default) ==
    LET hits == {i \in 1..Len(d[2]) : d[2][i][1] = key}
    IN IF hits = {} THEN default ELSE d[2][CHOOSE i \in hits : TRUE][2]

\* d[key] = value: replaces in place, or appends the new key last
DictSet(d, key, value) ==
    LET hits == {i \in 1..Len(d[2]) : d[2][i][1] = key}
    IN IF hits = {}
       THEN PyDict(Append(d[2], <<key, value>>))
       ELSE PyDict([i \in 1..Len(d[2]) |->
                       IF i \in hits THEN <<key, value>> ELSE d[2][i]])

\* --------------------------------------------------------------- JSON
\* json.dumps / json.dump: the text is a tagged tree; a tuple is written as
\* an array like a list, True/False/None as the literals true/false/null.
RECURSIVE JsonEncode(_)
JsonEncode(v) ==
    CASE v[1] = "none" -> <<"lit", "null">>
      [] v[1] = "bool" -> <<"lit", IF v[2] THEN "true" ELSE "false">>
      [] v[1] = "num" -> <<"number", v[2]>>
      [] v[1] = "str" -> <<"string", v[2], v[3]>>
      [] v[1] \in {"list", "tuple"} ->
            <<"array", [i \in 1..Len(v[2]) |-> JsonEncode(v[2][i])]>>
      [] OTHER ->
            <<"object", [i \in 1..Len(v[2]) |->
                            <<v[2][i][1], JsonEncode(v[2][i][2])>>]>>

\* json.load: an array always comes back as a list
RECURSIVE JsonDecode(_)
JsonDecode(j) ==
    CASE j[1] = "lit" ->
            (IF j[2] = "null" THEN PyNone ELSE PyBool(j[2] = "true"))
      [] j[1] = "number" -> PyNum(j[2])
      [] j[1] = "string" -> PyStr(j[2], j[3])
      [] j[1] = "array" ->
            PyList([i \in 1..Len(j[2]) |-> JsonDecode(j[2][i])])
      [] OTHER ->
            PyDict([i \in 1..Len(j[2]) |->
                       <<j[2][i][1], JsonDecode(j[2][i][2])>>])

\* A file's text: the encoded tree and the indent it was written with.
JsonDumps(v, indent) == [indent |-> indent, tree |-> JsonEncode(v)]
JsonLoads(text) == JsonDecode(text.tree)

\* ------------------------------------------------------------ hashing
Sha256(b) == 2 * b + 1
IsHex(s) == s[1] = "str" /\ s[2] \in {"lower", "upper"}
FromHex(s) == s[3]
HexDigest(b) == Lower(b)

\* sha256(json.dumps(block_data).encode()).hexdigest()[:16]
ContentId(block_data) == <<"sha16", JsonDumps(block_data, 0)>>

\* BitVM.step_chain (PSBTgen.py): seed, then steps hashes, returned reversed
RECURSIVE ForwardChain(_, _)
ForwardChain(seed, steps) ==
    IF steps = 0 THEN <<seed>>
    ELSE LET c == ForwardChain(seed, steps - 1)
         IN Append(c, Sha256(c[Len(c)]))

Reverse(s) == [i \in 1..Len(s) |-> s[Len(s) + 1 - i]]

\* step_chain returning the chain in the order it was built
StepChainForward(seed, steps) == ForwardChain(seed, steps)

step_chain(seed, steps) == Reverse(ForwardChain(seed, steps))

\* the chain as the hex strings a block's step_chain field holds (bytes.hex())
HexChain(c) == [i \in 1..Len(c) |-> Lower(c[i])]

\* The generator all() consumes in process_challenge, from pair i on:
\* "raise" when bytes.fromhex rejects an element all() reaches.
RECURSIVE AllPairsFrom(_, _)
AllPairsFrom(step_data, i) ==
    IF i > Len(step_data) - 1 THEN "true"
    ELSE IF ~IsHex(step_data[i]) THEN "raise"
    ELSE IF HexDigest(Sha256(FromHex(step_data[i]))) = step_data[i + 1]
         THEN AllPairsFrom(step_data, i + 1)
         ELSE "false"

\* The verification with the digests compared as bytes, not as hex texts
VerifyChainBytes(step_data) ==
    IF \E i \in 1..(Len(step_data) - 1) : ~IsHex(step_data[i]) THEN "raise"
    ELSE IF \A i \in 1..(Len(step_data) - 1) :
               IsHex(step_data[i + 1])
               /\ Sha256(FromHex(step_data[i])) = FromHex(step_data[i + 1])
         THEN "true" ELSE "false"

\* verified = all(sha256(bytes.fromhex(s[i])).hexdigest() == s[i + 1] ...)
VerifyChain(step_data) == AllPairsFrom(step_data, 1)

\* -------------------------------------------------------------- files
\* The directory db_path: a function from file names to file texts.  The
\* name <<id>> is rollup_block_{id}.json; a derived file appends its suffix
\* to the name it was derived from (file_path.stem + suffix).
VARIABLES db, history, histFile, wpc, pending, eligible, last, putLog, hc, gen, rw

vars == <<db, history, histFile, wpc, pending, eligible, last, putLog, hc, gen, rw>>

\* time.time(): the wall clock's reading, the same opaque value at every read
Clock == <<"time">>

WriteFile(d, name, text) ==
    [f \in DOMAIN d \cup {name} |-> IF f = name THEN text ELSE d[f]]

WithName(file_path, suffix) == Append(file_path, suffix)

BlockPath(block_id) == <<block_id>>

\* db_path.glob("rollup_block_*.json")
MatchesGlob(name) ==
    Len(name) = 1 \/ name[Len(name)] \in {"_proof.json", "_tree.json", "_log.json"}

BlockRecords(d) == {f \in DOMAIN d : Len(f) = 1}

\* load_block
load_block(d, block_id) == JsonLoads(d[BlockPath(block_id)])

\* ------------------------------------------------------- the block store
\* What the content store and the cluster answer during one put:
\* installed: shutil.which("ipfs"); add: `ipfs add` printed a hash;
\* pin: `ipfs pin add` exited 0; cluster: the POST's outcome.
PutEnvs ==
    {[installed |-> FALSE, add |-> FALSE, pin |-> FALSE, cluster |-> "none"]}
    \cup [installed : {TRUE}, add : BOOLEAN, pin : {FALSE}, cluster : {"none"}]
    \cup [installed : {TRUE}, add : BOOLEAN, pin : {TRUE},
          cluster : {"202", "rejected", "exc"}]

CollaboratorFailed(env) ==
    env.installed /\ (~env.add \/ ~env.pin \/ env.cluster # "202")

\* `ipfs add -q` output for a block
Cid(block_data) == PyStr("cid", JsonDumps(block_data, 0))

\* The try body of pin_to_ipfs: subprocess.run(check=True) raises when the
\* local pin fails, requests.post raises when the cluster is unreachable; a
\* status other than 202 is only printed.
PinBody(env) ==
    IF ~env.pin \/ env.cluster = "exc" THEN "raised" ELSE "returned"

\* pin_to_ipfs without its try/except: the failure reaches the caller
PinToIpfsUncaught(env) == PinBody(env)

\* pin_to_ipfs: except Exception catches and prints whatever the body raised
pin_to_ipfs(env) == IF PinBody(env) = "raised" THEN "returned" ELSE PinBody(env)

HistoryEntry(ipfs_hash, t) ==
    PyDict(<< <<"ipfs_hash", ipfs_hash>>, <<"timestamp", <<"num", t>>>> >>)

\* save_history
save_history(h) == <<JsonDumps(PyList(h), 2)>>

\* store_rollup_block with the id taken from the number of commits so far
\* instead of the content
StoreRollupBlockCountId(d, h, hf, block_data, block_id, env, t) ==
    LET ipfs_hash == IF env.add THEN Cid(block_data) ELSE EmptyStr
        h1 == IF env.installed THEN Append(h, HistoryEntry(ipfs_hash, t)) ELSE h
        id == IF block_id[1] # "none" THEN block_id
              ELSE ContentId(PyDict(<< <<"commits", PyNum(Len(h1))>> >>))
    IN [db |-> WriteFile(d, BlockPath(id), JsonDumps(block_data, 2)),
        history |-> h1,
        histFile |-> IF env.installed THEN save_history(h1) ELSE hf,
        ret |-> id, raised |-> FALSE]

\* store_rollup_block that records the id inside the block it writes
StoreRollupBlockStampsId(d, h, hf, block_data, block_id, env, t) ==
    LET ipfs_hash == IF env.add THEN Cid(block_data) ELSE EmptyStr
        h1 == IF env.installed THEN Append(h, HistoryEntry(ipfs_hash, t)) ELSE h
        id == IF block_id[1] # "none" THEN block_id ELSE ContentId(block_data)
    IN [db |-> WriteFile(d, BlockPath(id),
                         JsonDumps(DictSet(block_data, "block_id", PyStr("id", id)), 2)),
        history |-> h1,
        histFile |-> IF env.installed THEN save_history(h1) ELSE hf,
        ret |-> id, raised |-> FALSE]

\* store_rollup_block(block_data, block_id)
StoreRollupBlock(d, h, hf, block_data, block_id, env, t) ==
    LET ipfs_hash == IF env.add THEN Cid(block_data) ELSE EmptyStr
        pinned == IF env.installed THEN pin_to_ipfs(env) ELSE "returned"
        h1 == IF env.installed THEN Append(h, HistoryEntry(ipfs_hash, t)) ELSE h
        id == IF block_id[1] # "none" THEN block_id ELSE ContentId(block_data)
    IN IF pinned = "raised"
       THEN [db |-> d, history |-> h, histFile |-> hf,
             ret |-> PyNone, raised |-> TRUE]
       ELSE [db |-> WriteFile(d, BlockPath(id), JsonDumps(block_data, 2)),
             history |-> h1,
             histFile |-> IF env.installed THEN save_history(h1) ELSE hf,
             ret |-> id, raised |-> FALSE]

\* ----------------------------------------------------------- the watcher
\* a or b
PyOr(a, b) == IF Truthy(a) THEN a ELSE b

\* [h for h in xs if h]
FilterTruthy(xs) == SelectSeq(xs, Truthy)

\* The watcher's condition without its second half
EligibleWheneverChallenged(block) == Truthy(DictGet(block, "challenged", PyNone))

\* block.get("challenged") and not block.get("proof_generated")
Eligible(block) ==
    Truthy(DictGet(block, "challenged", PyNone))
    /\ ~Truthy(DictGet(block, "proof_generated", PyNone))

\* The flags set only when the chain verified
MarkProofIfVerified(block, verified) ==
    IF verified[2]
    THEN DictSet(DictSet(block, "proof_verified", verified), "proof_generated", PyBool(TRUE))
    ELSE block

\* The record rewritten from the fields the watcher reads, the rest dropped
KnownField(pair) == pair[1] \in {"step_chain", "challenged"}

MarkProofFlagsOnly(block, verified) ==
    DictSet(DictSet(PyDict(SelectSeq(block[2], KnownField)),
                    "proof_verified", verified), "proof_generated", PyBool(TRUE))

\* block["proof_verified"] = verified; block["proof_generated"] = True
MarkProof(block, verified) ==
    DictSet(DictSet(block, "proof_verified", verified), "proof_generated", PyBool(TRUE))

\* {"proof_steps": block.get("step_chain"), "verified": verified}
ProofExport(block, verified) ==
    PyDict(<< <<"proof_steps", DictGet(block, "step_chain", PyNone)>>,
              <<"verified", verified>> >>)

\* script_tree: one tapleaf descriptor per element of step_chain
ScriptTree(block) ==
    LET steps == DictGet(block, "step_chain", PyList(<<>>))[2]
    IN PyDict(<< <<"tapleaf_tree",
                   PyList([i \in 1..Len(steps) |->
                       PyDict(<< <<"name", PyStr("step_", i - 1)>>,
                                 <<"script", PyStr("OP_SHA256 _ OP_EQUAL", steps[i])>>,
                                 <<"tapleaf_version", Text("c0")>> >>)])>> >>)

\* block.get("ipfs_hashes") or [block.get("ipfs_hash")], the falsy ones dropped
IpfsHashes(block) ==
    FilterTruthy(PyOr(DictGet(block, "ipfs_hashes", PyNone),
                      PyList(<<DictGet(block, "ipfs_hash", PyNone)>>))[2])

\* sha256 of the joined handles, or of the joined step chain when there are none
Commitment(block) ==
    IF Len(IpfsHashes(block)) > 0
    THEN PyStr("sha256hex", IpfsHashes(block))
    ELSE PyStr("sha256hex", DictGet(block, "step_chain", PyList(<<>>))[2])

\* The dict json.dump writes to the log file; "sighash" is added to the dict
\* only after the dump and is not in the file.
LogEntry(block, t) ==
    LET hs == IpfsHashes(block)
    IN PyDict(<< <<"ipfs_hash", IF Len(hs) > 0 THEN hs[1] ELSE Text("N/A")>>,
                 <<"txid", Text("txid")>>,
                 <<"commitment", Commitment(block)>>,
                 <<"timestamp", <<"num", t>>>> >>)

\* What the generator, the signer, the node and the broadcast transaction do
\* in one processing, by the first step that fails; the last three got
\* through getrawtransaction and differ in the transaction's outputs: none
\* starts with OP_RETURN, one does and holds the commitment, one does
\* without it.
ExtOutcomes ==
    {"generator_fails", "sign_fails", "finalize_fails", "broadcast_fails",
     "getraw_fails", "no_opreturn", "opreturn_commitment", "opreturn_other"}

\* The try block of process_challenge.  hwi and the node are other
\* programs: the signed and final transaction files are theirs to write and
\* are not files of the model.  The scan of the outputs reads `commitment`
\* before the function assigns it, which raises as soon as an output's
\* script starts with OP_RETURN; except Exception catches every failure, so
\* the log is written exactly when no output starts with OP_RETURN.
SignAndBroadcast(d, block, file_path, ext, t) ==
    IF ext = "no_opreturn"
    THEN WriteFile(d, WithName(file_path, "_log.json"),
                   JsonDumps(LogEntry(block, t), 2))
    ELSE d

IoOutcomes == {"ok", "block_write_fails", "proof_write_fails", "tree_write_fails"}

\* One processing's outcomes: a failing write ends it before the signer runs.
Outcomes ==
    {<<io, "none">> : io \in IoOutcomes \ {"ok"}} \cup {<<"ok", ext>> : ext \in ExtOutcomes}

\* process_challenge(block, file_path).  io: which of its three writes
\* before the try block fails, if any.  raised: an exception left the
\* function.  os.system's result is ignored, and the PSBT is the
\* generator's file.
ProcessChallenge(d, block, file_path, io, ext, t) ==
    LET step_data == DictGet(block, "step_chain", PyList(<<>>))[2]
        v == VerifyChain(step_data)
        verified == PyBool(v = "true")
        block2 == MarkProof(block, verified)
        d1 == WriteFile(d, file_path, JsonDumps(block2, 2))
        d2 == WriteFile(d1, WithName(file_path, "_proof.json"),
                        JsonDumps(ProofExport(block2, verified), 2))
        d3 == WriteFile(d2, WithName(file_path, "_tree.json"),
                        JsonDumps(ScriptTree(block2), 2))
    IN IF v = "raise" \/ io = "block_write_fails" THEN [db |-> d, raised |-> TRUE]
       ELSE IF io = "proof_write_fails" THEN [db |-> d1, raised |-> TRUE]
       ELSE IF io = "tree_write_fails" THEN [db |-> d2, raised |-> TRUE]
       ELSE [db |-> SignAndBroadcast(d3, block2, file_path, ext, t),
             raised |-> FALSE]

\* ------------------------------------------------------------- inputs
\* The blocks handed to store_rollup_block.
Block(chain, challenged, more) ==
    PyDict(<< <<"step_chain", PyList(chain)>>,
              <<"challenged", PyBool(challenged)>> >> \o more)

GoodChain == HexChain(ForwardChain(0, 2))
BuiltChain == HexChain(step_chain(0, 2))
BadHexChain == <<NonHex, Lower(1)>>

PutBlocks ==
    { Block(GoodChain, TRUE, <<>>),
      Block(BuiltChain, TRUE, << <<"ipfs_hash", Text("QmA")>> >>),
      Block(BadHexChain, TRUE, <<>>),
      Block(GoodChain, FALSE, << <<"outputs", PyTuple(<<Text("addr")>>)>> >>),
      PyDict(<< <<"challenged", PyBool(TRUE)>> >>) }

\* A block json can write and read back unchanged: no tuple among its values
WellFormed(block) == \A i \in 1..Len(block[2]) : block[2][i][2][1] # "tuple"

\* ------------------------------------- the store's readers and its start
\* The names of the directory compare as Python compares the texts
\* rollup_block_{id}{suffix}: by the id's 16 hex digits, then by the suffix
\* ('.' sorts before '_').  The digits of a digest follow no order of the
\* content: IdRank is one fixed total order of the ids.
AllIds == {ContentId(b) : b \in PutBlocks}

IdRank ==
    CHOOSE r \in [AllIds -> 1..Cardinality(AllIds)] :
        \A x, y \in AllIds : x # y => r[x] # r[y]

SuffixRank(name) ==
    IF Len(name) = 1 THEN 0
    ELSE CASE name[2] = "_log.json" -> 1
           [] name[2] = "_proof.json" -> 2
           [] OTHER -> 3

NameLeq(a, b) ==
    \/ IdRank[a[1]] < IdRank[b[1]]
    \/ IdRank[a[1]] = IdRank[b[1]] /\ SuffixRank(a) <= SuffixRank(b)

\* sorted(names)
RECURSIVE Sorted(_)
Sorted(names) ==
    IF names = {} THEN <<>>
    ELSE LET m == CHOOSE x \in names : \A y \in names : NameLeq(x, y)
         IN <<m>> \o Sorted(names \ {m})

\* list_blocks
list_blocks(d) == Sorted({f \in DOMAIN d : MatchesGlob(f)})

\* block_file.split("_")[2].split(".")[0]: the id inside a listed name
IdOfListed(name) == name[1]

\* for output in block.get("outputs", []): output.get("address") raises for
\* an output that is no dict, and the for raises for a value with no iterator
OutputsRaise(block) ==
    LET outputs == DictGet(block, "outputs", PyList(<<>>))
    IN CASE outputs[1] = "list" ->
                \E i \in 1..Len(outputs[2]) : outputs[2][i][1] # "dict"
         [] outputs[1] = "dict" -> Len(outputs[2]) > 0
         [] outputs[1] = "str" -> outputs # EmptyStr
         [] OTHER -> TRUE

\* auto_update_utxo_state up to the first exception; fetch_utxos catches its own
AutoUpdateRaises(d) ==
    \E i \in 1..Len(list_blocks(d)) :
        OutputsRaise(load_block(d, IdOfListed(list_blocks(d)[i])))

\* load_history at a start that forgets the file
LoadHistoryFresh(hf) == <<>>

\* load_history: the file's list when the file exists
load_history(hf) == IF hf = <<>> THEN <<>> ELSE JsonLoads(hf[1])[2]

\* What `ipfs get` leaves in _ipfs_block.json: nothing, a text that is no
\* JSON, or the JSON text of some block.
FetchOutcomes ==
    {<<"get_fails">>, <<"not_json">>} \cup {<<"content", JsonDumps(b, 0)>> : b \in PutBlocks}

\* A handle is a text; ipfs_hash[:16] is its payload.
Handle(prefix) == PyStr("handle", prefix)
Prefix16(ipfs_hash) == ipfs_hash[3]

\* The handles asked for: one whose first 16 characters are the content hash
\* of a block, and a CID of the content store, which never is one.
Handles == {Handle(ContentId(PyDict(<< <<"challenged", PyBool(TRUE)>> >>))),
            Handle(<<"cid", "Qm">>)}

\* The content store's answers to the put inside a fetch
FetchEnvs == {env \in PutEnvs : env.installed /\ env.cluster \in {"none", "202"}}

\* fetch_from_ipfs that stores and returns the content only when the hash matches
FetchFromIpfsStrict(d, h, hf, ipfs_hash, got, env, t) ==
    IF got[1] = "content" /\ Prefix16(ipfs_hash) = ContentId(JsonLoads(got[2]))
    THEN LET r == StoreRollupBlock(d, h, hf, JsonLoads(got[2]),
                                   ContentId(JsonLoads(got[2])), env, t)
         IN [db |-> r.db, history |-> r.history, histFile |-> r.histFile,
             ret |-> JsonLoads(got[2]), printed |-> "matches"]
    ELSE [db |-> d, history |-> h, histFile |-> hf,
          ret |-> PyDict(<<>>), printed |-> "failed"]

\* fetch_from_ipfs(ipfs_hash): every exception of the body, the store's
\* included, is caught and answered with {}
fetch_from_ipfs(d, h, hf, ipfs_hash, got, env, t) ==
    IF got[1] # "content"
    THEN [db |-> d, history |-> h, histFile |-> hf,
          ret |-> PyDict(<<>>), printed |-> "failed"]
    ELSE LET block_data == JsonLoads(got[2])
             expected == Prefix16(ipfs_hash)
             actual == ContentId(block_data)
             r == StoreRollupBlock(d, h, hf, block_data, actual, env, t)
         IN [db |-> r.db, history |-> r.history, histFile |-> r.histFile,
             ret |-> IF r.raised THEN PyDict(<<>>) ELSE block_data,
             printed |-> IF r.raised THEN "failed"
                         ELSE IF expected # actual THEN "mismatch" ELSE "matches"]

\* ------------------------------------------------------------- state
\* last: the operation that made the last step, with its inputs and result.
\* putLog: every <<block, id>> a put has returned.  eligible: the block
\* files the running tick found challenged and unproved, as read at its start.
NoEnv == [installed |-> FALSE, add |-> FALSE, pin |-> FALSE, cluster |-> "none"]

Op(op, file, arg, ret, env, io, ext, raised) ==
    [op |-> op, file |-> file, arg |-> arg, ret |-> ret, env |-> env,
     io |-> io, ext |-> ext, raised |-> raised]

NoOp(op) == Op(op, <<>>, PyNone, PyNone, NoEnv, "ok", "none", FALSE)

NoChain == [phase |-> "start", src |-> "none", chain |-> <<>>,
            res |-> "none", origRes |-> "none"]

\* gen: the run of the PSBT generator script.  rw: a write of a block
\* record in progress and what a reader running beside it last read.
NoGen == [pc |-> "start", seed |-> 0, steps |-> 0, timeouts |-> <<>>,
          amount_sats |-> 0, fee |-> 0, chain |-> <<>>, scripts |-> <<>>,
          tree |-> <<>>, taproot_key |-> <<>>, spend |-> <<>>,
          raised |-> "none", prev |-> <<>>]
NoRw == [writing |-> <<>>, seen |-> <<>>]

Init ==
    /\ db = <<>>
    /\ history = <<>>
    /\ histFile = <<>>
    /\ wpc = "idle"
    /\ pending = {}
    /\ eligible = {}
    /\ last = NoOp("init")
    /\ putLog = {}
    /\ hc = NoChain
    /\ gen = NoGen
    /\ rw = NoRw

\* prover.store_rollup_block(block)
Put(b, env) ==
    LET r == StoreRollupBlock(db, history, histFile, b, PyNone, env, Clock)
    IN /\ wpc = "idle"
       /\ Cardinality(BlockRecords(r.db)) <= MaxBlocks
       /\ Len(r.history) <= MaxHistory
       /\ db' = r.db
       /\ history' = r.history
       /\ histFile' = r.histFile
       /\ last' = Op("put", <<>>, b, r.ret, env, "ok", "none", r.raised)
       /\ putLog' = IF r.raised THEN putLog ELSE putLog \cup {<<b, r.ret>>}
       /\ eligible' = {}
       /\ UNCHANGED <<wpc, pending, hc, gen, rw>>

\* watch_for_challenges: the for loop starts, glob lists the directory
TickStart ==
    /\ wpc = "idle"
    /\ wpc' = "scanning"
    /\ pending' = {f \in DOMAIN db : MatchesGlob(f)}
    /\ eligible' = {<<f, JsonLoads(db[f])>> : f \in
                       {g \in DOMAIN db : MatchesGlob(g) /\ Eligible(JsonLoads(db[g]))}}
    /\ last' = NoOp("tickstart")
    /\ UNCHANGED <<db, history, histFile, putLog, hc, gen, rw>>

\* the iterations of the for loop over the files that are not to be
\* processed: each reads its file and goes on
ScanSkip ==
    LET skipped == {f \in pending : ~Eligible(JsonLoads(db[f]))}
    IN /\ wpc = "scanning"
       /\ skipped # {}
       /\ pending' = pending \ skipped
       /\ last' = NoOp("skip")
       /\ UNCHANGED <<db, history, histFile, wpc, eligible, putLog, hc, gen, rw>>

\* one iteration of the for loop that calls process_challenge; an exception
\* leaving process_challenge leaves watch_for_challenges too
ScanProcess(f, io, ext) ==
    LET block == JsonLoads(db[f])
        r == ProcessChallenge(db, block, f, io, ext, Clock)
    IN /\ wpc = "scanning"
       /\ f \in pending
       /\ Eligible(block)
       /\ db' = r.db
       /\ pending' = pending \ {f}
       /\ wpc' = IF r.raised THEN "crashed" ELSE "scanning"
       /\ last' = Op("process", f, PyNone, PyNone, NoEnv, io, ext, r.raised)
       /\ UNCHANGED <<history, histFile, eligible, putLog, hc, gen, rw>>

\* the for loop is done: time.sleep(interval)
TickEnd ==
    /\ wpc = "scanning"
    /\ pending = {}
    /\ wpc' = "idle"
    /\ last' = NoOp("tickend")
    /\ UNCHANGED <<db, history, histFile, pending, eligible, putLog, hc, gen, rw>>

Next ==
    \/ \E b \in PutBlocks : Put(b, NoEnv)
    \/ TickStart
    \/ ScanSkip
    \/ \E f \in pending, o \in Outcomes : ScanProcess(f, o[1], o[2])
    \/ TickEnd

\* The store with the watcher, on a host without the content-store daemon.
Spec == Init /\ [][Next]_vars

\* The process ends and is started again: BitVMProofBuilder() loads the
\* history file and walks the stored blocks; an exception of that walk
\* leaves the program without a builder.
Restart ==
    LET failed == AutoUpdateRaises(db)
    IN /\ history' = load_history(histFile)
       /\ wpc' = IF failed THEN "crashed" ELSE "idle"
       /\ pending' = {}
       /\ eligible' = {}
       /\ last' = Op("restart", <<>>, PyNone, PyNone, NoEnv, "ok", "none", failed)
       /\ UNCHANGED <<db, histFile, putLog, hc, gen, rw>>

NextStore ==
    \/ \E b \in PutBlocks, env \in PutEnvs : Put(b, env)
    \/ Restart

\* The store alone, with every answer of the content store.
SpecStore == Init /\ [][NextStore]_vars

NextRestart ==
    \/ Next
    \/ Restart

\* The store with the watcher, the program started again after it ended.
SpecRestart == Init /\ [][NextRestart]_vars

\* prover.fetch_from_ipfs(ipfs_hash); `ipfs get` answers only where ipfs is
\* installed
Fetch(ipfs_hash, got, env) ==
    LET r == fetch_from_ipfs(db, history, histFile, ipfs_hash, got, env, Clock)
    IN /\ wpc = "idle"
       /\ got[1] = "content" => env \in FetchEnvs
       /\ got[1] # "content" => env = NoEnv
       /\ Cardinality(BlockRecords(r.db)) <= MaxBlocks
       /\ Len(r.history) <= MaxHistory
       /\ db' = r.db
       /\ history' = r.history
       /\ histFile' = r.histFile
       /\ last' = Op("fetch", <<>>, <<ipfs_hash, got>>, r.ret, env, r.printed, "none", FALSE)
       /\ eligible' = {}
       /\ UNCHANGED <<wpc, pending, putLog, hc, gen, rw>>

NextFetch == \E ipfs_hash \in Handles, got \in FetchOutcomes, env \in PutEnvs :
                Fetch(ipfs_hash, got, env)

\* Fetches from the content store into the block store.
SpecFetch == Init /\ [][NextFetch]_vars

\* ------------------------------------------- a reader beside a writer
\* A file between open(path, "w"), which empties it, and the close that
\* ends the with block and flushes what json.dump wrote: empty, or a
\* beginning of the text.  json.load of it raises.
Truncated == [indent |-> 0, tree |-> <<"partial">>]

\* open(path, "w")
OpenW(d, name) == WriteFile(d, name, Truncated)

\* json.load(f) of a file as it is at the moment of the read
ReadRecord(text) == IF text = Truncated THEN <<"raise">> ELSE JsonLoads(text)

InFlight(op, file, block) ==
    [op |-> op, file |-> file, block |-> block,
     old |-> IF file \in DOMAIN db THEN <<db[file]>> ELSE <<>>]

\* store_rollup_block reaches open(path, "w")
ConcPutOpen(b) ==
    /\ rw.writing = <<>>
    /\ Cardinality(BlockRecords(db) \cup {BlockPath(ContentId(b))}) <= MaxBlocks
    /\ db' = OpenW(db, BlockPath(ContentId(b)))
    /\ rw' = [rw EXCEPT !.writing = <<InFlight("put", BlockPath(ContentId(b)), b)>>]
    /\ UNCHANGED <<history, histFile, wpc, pending, eligible, last, putLog, hc, gen>>

\* json.dump and the end of the with block; store_rollup_block returns
ConcPutClose ==
    /\ rw.writing # <<>>
    /\ rw.writing[1].op = "put"
    /\ db' = StoreRollupBlock(db, history, histFile, rw.writing[1].block,
                              PyNone, NoEnv, Clock).db
    /\ rw' = [rw EXCEPT !.writing = <<>>]
    /\ UNCHANGED <<history, histFile, wpc, pending, eligible, last, putLog, hc, gen>>

\* the watcher found the block of file f eligible; process_challenge
\* verified the chain, set the flags and reaches open(file_path, "w")
ConcMarkOpen(f) ==
    /\ rw.writing = <<>>
    /\ f \in BlockRecords(db)
    /\ Eligible(JsonLoads(db[f]))
    /\ VerifyChain(DictGet(JsonLoads(db[f]), "step_chain", PyList(<<>>))[2]) # "raise"
    /\ db' = OpenW(db, f)
    /\ rw' = [rw EXCEPT !.writing = <<InFlight("process", f, JsonLoads(db[f]))>>]
    /\ UNCHANGED <<history, histFile, wpc, pending, eligible, last, putLog, hc, gen>>

\* json.dump and the end of the with block, then the rest of process_challenge
ConcMarkClose(ext) ==
    /\ rw.writing # <<>>
    /\ rw.writing[1].op = "process"
    /\ db' = ProcessChallenge(db, rw.writing[1].block, rw.writing[1].file,
                              "ok", ext, Clock).db
    /\ rw' = [rw EXCEPT !.writing = <<>>]
    /\ UNCHANGED <<history, histFile, wpc, pending, eligible, last, putLog, hc, gen>>

\* another thread or process reads a block record: load_block, or the
\* json.load of a watcher's scan
ConcRead(f) ==
    /\ f \in BlockRecords(db)
    /\ rw' = [rw EXCEPT !.seen = <<[file |-> f, text |-> db[f], writing |-> rw.writing]>>]
    /\ UNCHANGED <<db, history, histFile, wpc, pending, eligible, last, putLog, hc, gen>>

NextConc ==
    \/ \E b \in PutBlocks : ConcPutOpen(b)
    \/ ConcPutClose
    \/ \E f \in DOMAIN db : ConcMarkOpen(f)
    \/ \E ext \in ExtOutcomes : ConcMarkClose(ext)
    \/ \E f \in DOMAIN db : ConcRead(f)

\* The writers of block records step by step, with a reader beside them.
SpecConc == Init /\ [][NextConc]_vars

\* ------------------------------------------------------ the hash chain
\* The texts a step_chain element is drawn from, and the chains of them.
ByteVals == {ForwardChain(0, MaxChainLen - 1)[i] : i \in 1..MaxChainLen} \cup {2}

HexStrs == {Lower(n) : n \in ByteVals} \cup {Upper(n) : n \in ByteVals} \cup {NonHex}

Chains == UNION {[1..n -> HexStrs] : n \in 0..MaxChainLen}

\* chain = BitVM.step_chain(seed, steps), written as a block's step_chain
ChainBuild(seed, steps) ==
    /\ hc.phase = "start"
    /\ hc' = [hc EXCEPT !.phase = "loaded", !.src = "build",
                        !.chain = HexChain(step_chain(seed, steps))]
    /\ UNCHANGED <<db, history, histFile, wpc, pending, eligible, last, putLog, gen, rw>>

\* any step_chain a stored block may hold
ChainLoad(c) ==
    /\ hc.phase = "start"
    /\ hc' = [hc EXCEPT !.phase = "loaded", !.src = "load", !.chain = c]
    /\ UNCHANGED <<db, history, histFile, wpc, pending, eligible, last, putLog, gen, rw>>

\* verified = all(...), as process_challenge computes it
ChainVerify ==
    /\ hc.phase \in {"loaded", "tampered"}
    /\ hc' = [hc EXCEPT !.phase = IF hc.phase = "loaded" THEN "verified" ELSE "reverified",
                        !.res = VerifyChain(hc.chain)]
    /\ UNCHANGED <<db, history, histFile, wpc, pending, eligible, last, putLog, gen, rw>>

\* one interior element of a verified chain is replaced by another text
ChainTamper(i, x) ==
    /\ hc.phase = "verified"
    /\ hc.res = "true"
    /\ i \in 2..(Len(hc.chain) - 1)
    /\ x # hc.chain[i]
    /\ hc' = [hc EXCEPT !.phase = "tampered", !.origRes = hc.res,
                        !.chain = [hc.chain EXCEPT ![i] = x]]
    /\ UNCHANGED <<db, history, histFile, wpc, pending, eligible, last, putLog, gen, rw>>

NextChain ==
    \/ \E seed \in 0..MaxSeed, steps \in 1..MaxSteps : ChainBuild(seed, steps)
    \/ \E c \in Chains : ChainLoad(c)
    \/ ChainVerify
    \/ \E i \in 1..MaxChainLen, x \in HexStrs : ChainTamper(i, x)

\* The chain builder and the chain verification on their own.
SpecChain == Init /\ [][NextChain]_vars

\* ------------------------------------------- the PSBT generator script
\* src/PSBTgen.py runs top to bottom.  Its literals are the inputs of a run:
\* the seed and the number of steps (line 30), the timeouts (31), the amount
\* and the fee (71-72).  Amounts count units of 1000 satoshi.  Names of the
\* library are taken as bound (OP_1 is used without being imported); a name
\* the script itself never assigns is not.
ScriptSteps == 3
Timeouts == <<80, 160, 240>>
FallbackTimeout == 300
AmountSats == 21000000
Fee == 1
Vout == 1

Schedules == {SubSeq(Timeouts, 1, n) : n \in 1..Len(Timeouts)}
Amounts == {AmountSats, Fee, 0}
Times == 0..MaxTime

\* lines 35-47: the script of step i (from 0)
StepScript(chain, timeouts, i) ==
    LET current_data == chain[i + 2]
        expected_hash == chain[i + 1]
        timeout == timeouts[i + 1]
    IN <<"challenger_pub", "OP_CHECKSIGVERIFY",
         current_data, "OP_SHA256", expected_hash, "OP_EQUAL", "OP_IF",
         "OP_1",
         "OP_ELSE",
         timeout, "OP_CHECKSEQUENCEVERIFY",
         "operator_pub", "OP_CHECKSIGVERIFY",
         "OP_ENDIF">>

\* line 51
leaf_op == <<"operator_pub", "OP_CHECKSIGVERIFY", FallbackTimeout, "OP_CHECKSEQUENCEVERIFY">>

\* line 54: TaprootScriptTree([leaf_op] + scripts)
TaprootScriptTree(scripts) == <<leaf_op>> \o scripts

\* line 55: the output key is a function of the internal key and the tree
constructTaprootOutputKey(internal_pub, tree) == <<"output_key", internal_pub, tree>>

\* lines 64-83 for step i (from 0) at clock reading t; line 84 then reads
\* txout, a name the script never assigns: NameError, with tx still the
\* transaction of line 83.  sha256(current_data).digest()[:4] is kept whole.
BuildSpend(chain, timeouts, taproot_key, amount_sats, fee, i, t) ==
    LET current_data == chain[i + 2]
        txin == [prevout |-> <<"9d5d817f", Vout>>, nSequence |-> timeouts[i + 1]]
        step_hash == Sha256(current_data)
        log_data == <<"Step", i + 1, "|", "user42", "|", step_hash, "|", t>>
        op_return_script == <<"OP_RETURN", log_data>>
        txout_main == [nValue |-> amount_sats - fee, scriptPubKey |-> <<"p2tr", taproot_key>>]
        txout_log == [nValue |-> 0, scriptPubKey |-> op_return_script]
    IN [log_data |-> log_data,
        tx |-> [vin |-> <<txin>>, vout |-> <<txout_main, txout_log>>],
        raised |-> "NameError"]

\* lines 20-31: the script starts
GenStart(seed, steps, timeouts, amount_sats, fee) ==
    /\ gen.pc = "start"
    /\ gen' = [gen EXCEPT !.pc = "leaves", !.seed = seed, !.steps = steps,
                          !.timeouts = timeouts, !.amount_sats = amount_sats,
                          !.fee = fee, !.chain = step_chain(seed, steps)]
    /\ UNCHANGED <<db, history, histFile, wpc, pending, eligible, last, putLog, hc, rw>>

\* lines 34-48: one iteration; timeouts[i] raises past the schedule's end
GenLeaf ==
    LET i == Len(gen.scripts)
    IN /\ gen.pc = "leaves"
       /\ i < Len(gen.chain) - 1
       /\ gen' = IF i >= Len(gen.timeouts)
                 THEN [gen EXCEPT !.pc = "crashed", !.raised = "IndexError"]
                 ELSE [gen EXCEPT !.scripts =
                           Append(gen.scripts, StepScript(gen.chain, gen.timeouts, i))]
       /\ UNCHANGED <<db, history, histFile, wpc, pending, eligible, last, putLog, hc, rw>>

\* lines 51-56
GenTree ==
    /\ gen.pc = "leaves"
    /\ Len(gen.scripts) = Len(gen.chain) - 1
    /\ gen' = [gen EXCEPT !.pc = "spends",
                          !.tree = TaprootScriptTree(gen.scripts),
                          !.taproot_key = constructTaprootOutputKey("operator_pub",
                                              TaprootScriptTree(gen.scripts))]
    /\ UNCHANGED <<db, history, histFile, wpc, pending, eligible, last, putLog, hc, rw>>

\* lines 63-84: the first iteration of the PSBT loop, which is its last
GenSpend(t) ==
    LET r == BuildSpend(gen.chain, gen.timeouts, gen.taproot_key,
                        gen.amount_sats, gen.fee, 0, t)
    IN /\ gen.pc = "spends"
       /\ gen' = [gen EXCEPT !.pc = "crashed", !.spend = <<r>>, !.raised = r.raised]
       /\ UNCHANGED <<db, history, histFile, wpc, pending, eligible, last, putLog, hc, rw>>

\* the script is run once more with the same literals; prev keeps what the
\* earlier run derived
GenRerun ==
    /\ gen.pc = "crashed"
    /\ gen.spend # <<>>
    /\ gen.prev = <<>>
    /\ gen' = [NoGen EXCEPT !.pc = "leaves", !.seed = gen.seed, !.steps = gen.steps,
                            !.timeouts = gen.timeouts, !.amount_sats = gen.amount_sats,
                            !.fee = gen.fee, !.chain = step_chain(gen.seed, gen.steps),
                            !.prev = <<[spend |-> gen.spend[1],
                                        taproot_key |-> gen.taproot_key]>>]
    /\ UNCHANGED <<db, history, histFile, wpc, pending, eligible, last, putLog, hc, rw>>

NextGen ==
    \/ \E seed \in 0..MaxSeed, steps \in 1..MaxSteps, timeouts \in Schedules,
          amount_sats \in Amounts, fee \in {Fee} :
          GenStart(seed, steps, timeouts, amount_sats, fee)
    \/ GenLeaf
    \/ GenTree
    \/ \E t \in Times : GenSpend(t)
    \/ GenRerun

\* Runs of the generator script.
SpecGen == Init /\ [][NextGen]_vars

\* ------------------------------------------------------------- claims
Missing == <<"missing">>
Keys(d) == {d[2][i][1] : i \in 1..Len(d[2])}
ProofFlags == {"proof_generated", "proof_verified"}
StepData(block) == DictGet(block, "step_chain", PyList(<<>>))[2]
LogOf(f) == WithName(f, "_log.json")
DerivedNames(f) ==
    {WithName(f, "_proof.json"), WithName(f, "_tree.json"), WithName(f, "_log.json")}

\* C1: when a poll tick completes, every block that was challenged and not
\* proof_generated when the tick started has proof_generated = true and
\* proof_verified equal to the verification of its step_chain, whether that
\* verification is true or false.
C1_TickProvesEveryEligible ==
    last.op = "tickend" =>
        \A e \in eligible :
            LET rec == JsonLoads(db[e[1]])
            IN /\ DictGet(rec, "proof_generated", Missing) = PyBool(TRUE)
               /\ DictGet(rec, "proof_verified", Missing)
                     = PyBool(VerifyChain(StepData(e[2])) = "true")

C1_Witness ==
    /\ last.op = "tickend"
    /\ \E e \in eligible : VerifyChain(StepData(e[2])) = "true"
    /\ \E e \in eligible : VerifyChain(StepData(e[2])) = "false"

\* C2: the chain BitVM.step_chain(seed, n) returns, in the order returned,
\* passes the watcher's verification, for every seed and every n >= 1.
C2_BuiltChainVerifies ==
    (hc.phase = "verified" /\ hc.src = "build") => hc.res = "true"

\* C3: replacing an interior element of a chain that verifies by a different
\* value makes the verification return false.
C3_TamperedInteriorFails ==
    (hc.phase = "reverified" /\ hc.origRes = "true") => hc.res = "false"

C3_Witness ==
    /\ hc.phase = "reverified"
    /\ hc.origRes = "true"
    /\ Len(hc.chain) >= 3
    /\ hc.chain[2] = Upper(Sha256(FromHex(hc.chain[1])))

\* C4: when signing, finalization, broadcast or the check of the commitment
\* in the broadcast transaction fails, process_challenge catches the failure,
\* the block keeps proof_generated = true with the recorded proof_verified,
\* and no log file is written for it.
ExtFailures ==
    {"generator_fails", "sign_fails", "finalize_fails", "broadcast_fails",
     "getraw_fails", "no_opreturn", "opreturn_other"}

C4_FailureLeavesNoLog ==
    [][(/\ last'.op = "process"
        /\ last'.io = "ok"
        /\ last'.ext \in ExtFailures
        /\ VerifyChain(StepData(JsonLoads(db[last'.file]))) # "raise")
       => /\ ~last'.raised
          /\ wpc' = "scanning"
          /\ DictGet(JsonLoads(db'[last'.file]), "proof_generated", Missing) = PyBool(TRUE)
          /\ DictGet(JsonLoads(db'[last'.file]), "proof_verified", Missing)
                = PyBool(VerifyChain(StepData(JsonLoads(db[last'.file]))) = "true")
          /\ \/ LogOf(last'.file) \notin DOMAIN db'
             \/ /\ LogOf(last'.file) \in DOMAIN db
                /\ db'[LogOf(last'.file)] = db[LogOf(last'.file)]]_vars

\* C5: a failure while one block is processed never keeps the tick from
\* processing the remaining blocks and never ends the polling loop.
C5_FailureNeverStopsLoop == wpc # "crashed"

\* C6: the watcher deletes no file and adds or renames no block record; a
\* processing changes, in the block's record, the fields proof_generated and
\* proof_verified only; every other record is left as it was, and every other
\* file written is a derived file named from the processed block's file.
C6_WatcherFrame ==
    [][last'.op \in {"tickstart", "skip", "process", "tickend"}
       => /\ DOMAIN db \subseteq DOMAIN db'
          /\ BlockRecords(db') = BlockRecords(db)
          /\ \A f \in BlockRecords(db) :
                IF last'.op = "process" /\ f = last'.file
                THEN LET old == JsonLoads(db[f])
                         new == JsonLoads(db'[f])
                     IN /\ Keys(new) \subseteq Keys(old) \cup ProofFlags
                        /\ \A k \in Keys(old) \ ProofFlags :
                              DictGet(new, k, Missing) = DictGet(old, k, Missing)
                ELSE db'[f] = db[f]
          /\ \A f \in DOMAIN db' \ BlockRecords(db') :
                (f \notin DOMAIN db \/ db'[f] # db[f])
                => (last'.op = "process" /\ f \in DerivedNames(last'.file))]_vars

C6_Witness ==
    /\ last.op = "process"
    /\ ~last.raised
    /\ DictGet(JsonLoads(db[last.file]), "ipfs_hash", Missing) # Missing
    /\ DictGet(JsonLoads(db[last.file]), "proof_generated", Missing) = PyBool(TRUE)
    /\ LogOf(last.file) \in DOMAIN db
    /\ Cardinality(BlockRecords(db)) >= 2

\* C7: when signing, finalization and broadcast succeed and the commitment
\* is found in the broadcast transaction's outputs, the block's log entry is
\* written.
C7_LogWhenCommitmentConfirmed ==
    (last.op = "process" /\ last.io = "ok" /\ ~last.raised
     /\ last.ext = "opreturn_commitment")
    => LogOf(last.file) \in DOMAIN db

\* C8: a put without an explicit id of a content that was put before returns
\* the id the earlier put returned and adds no block record.
C8_PutIdempotent ==
    [][(last'.op = "put" /\ ~last'.raised)
       => \A p \in putLog :
             p[1] = last'.arg
             => /\ last'.ret = p[2]
                /\ BlockRecords(db') = BlockRecords(db)
                /\ db'[BlockPath(p[2])] = db[BlockPath(p[2])]]_vars

C8_Witness ==
    /\ last.op = "put"
    /\ Len(history) = 2
    /\ DictGet(history[1], "ipfs_hash", Missing) = Cid(last.arg)
    /\ DictGet(history[2], "ipfs_hash", Missing) = Cid(last.arg)
    /\ Cardinality(BlockRecords(db)) = 1

\* C9: load_block(store_rollup_block(b)) is equal to b for a well-formed b.
C9_StoreRoundTrip ==
    (last.op = "put" /\ ~last.raised /\ WellFormed(last.arg))
    => /\ BlockPath(last.ret) \in DOMAIN db
       /\ load_block(db, last.ret) = last.arg

C9_Witness ==
    /\ last.op = "put"
    /\ WellFormed(last.arg)
    /\ Len(StepData(last.arg)) >= 3
    /\ load_block(db, last.ret) = last.arg

\* C10: whatever the content store or the cluster answers during a put, the
\* block's record is written and can be read back under its id.
C10_PutSurvivesCollaborator ==
    (last.op = "put" /\ CollaboratorFailed(last.env))
    => /\ BlockPath(ContentId(last.arg)) \in DOMAIN db
       /\ db[BlockPath(ContentId(last.arg))] = JsonDumps(last.arg, 2)

C10_Witness ==
    /\ last.op = "put"
    /\ last.env.installed
    /\ ~last.env.pin
    /\ ~last.env.add
    /\ BlockPath(ContentId(last.arg)) \in DOMAIN db

IsPrefix(s, t) == Len(s) <= Len(t) /\ \A i \in 1..Len(s) : s[i] = t[i]
FileEntries(hf) == IF hf = <<>> THEN <<>> ELSE JsonLoads(hf[1])[2]

\* C11: the history file only grows at its end: every step leaves the file
\* holding its earlier entries, unchanged and in their order, followed by
\* the new ones; so the file extends each of its earlier contents.
C11_HistoryAppendOnly ==
    [][/\ IsPrefix(FileEntries(histFile), FileEntries(histFile'))
       /\ Len(FileEntries(histFile')) <= Len(FileEntries(histFile)) + 1]_vars

C11_Witness ==
    /\ last.op = "put"
    /\ last.env.installed
    /\ Len(FileEntries(histFile)) = 2
    /\ FileEntries(histFile)[1] # FileEntries(histFile)[2]
    /\ FileEntries(histFile) = history

\* C12: a read of a block record made while a writer of that record is at
\* work returns a complete record, the one before the write or the one the
\* write leaves; it never returns a record written in part.
NewText(w) ==
    IF w.op = "put" THEN JsonDumps(w.block, 2)
    ELSE JsonDumps(MarkProof(w.block,
             PyBool(VerifyChain(StepData(w.block)) = "true")), 2)

C12_ReaderSeesWholeRecord ==
    \A i \in 1..Len(rw.seen) :
        /\ ReadRecord(rw.seen[i].text) # <<"raise">>
        /\ \A j \in 1..Len(rw.seen[i].writing) :
              rw.seen[i].writing[j].file = rw.seen[i].file
              => \/ rw.seen[i].text = NewText(rw.seen[i].writing[j])
                 \/ <<rw.seen[i].text>> = rw.seen[i].writing[j].old

\* C13: list_blocks returns the names of the stored block records, each
\* once, in sorted order, and no other name.
C13_ListIsTheRecords == list_blocks(db) = Sorted(BlockRecords(db))

\* C16: no record whose step_chain has fewer than two elements, or has no
\* step_chain, is given proof_verified = true by a processing.
C16_ShortChainNeverVerified ==
    (last.op = "process" /\ ~last.raised
     /\ Len(StepData(JsonLoads(db[last.file]))) < 2)
    => DictGet(JsonLoads(db[last.file]), "proof_verified", Missing) # PyBool(TRUE)

\* C17: a processing of a block whose step_chain has n + 1 elements leaves
\* one proof file and one tree file for it, and the tree file holds n
\* descriptors.
TreeLeaves(f) ==
    DictGet(JsonLoads(db[WithName(f, "_tree.json")]), "tapleaf_tree", PyList(<<>>))[2]

C17_TreeHasOneLeafPerStep ==
    (last.op = "process" /\ ~last.raised
     /\ Len(StepData(JsonLoads(db[last.file]))) >= 1)
    => /\ WithName(last.file, "_proof.json") \in DOMAIN db
       /\ WithName(last.file, "_tree.json") \in DOMAIN db
       /\ Len(TreeLeaves(last.file)) = Len(StepData(JsonLoads(db[last.file]))) - 1

\* C14: building the spend fails with InsufficientAmount when fee >=
\* amount; otherwise the spend has one input whose nSequence is the leaf's
\* timeout, a main output of amount - fee and a commitment output of value 0.
C14_SpendBuiltOrInsufficient ==
    \A k \in 1..Len(gen.spend) :
        IF gen.fee >= gen.amount_sats
        THEN gen.raised = "InsufficientAmount"
        ELSE /\ gen.raised = "none"
             /\ Len(gen.spend[k].tx.vin) = 1
             /\ gen.spend[k].tx.vin[1].nSequence = gen.timeouts[1]
             /\ Len(gen.spend[k].tx.vout) = 2
             /\ gen.spend[k].tx.vout[1].nValue = gen.amount_sats - gen.fee
             /\ gen.spend[k].tx.vout[2].nValue = 0
             /\ gen.spend[k].tx.vout[2].scriptPubKey[1] = "OP_RETURN"

\* C15: a second derivation of the spend from the same inputs, at whatever
\* time, gives the transaction and the commitment payload of the first, and
\* the same leaves give the same Taproot output key.
C15_RederivationIsDeterministic ==
    \A k \in 1..Len(gen.prev) :
        /\ gen.taproot_key # <<>> => gen.taproot_key = gen.prev[k].taproot_key
        /\ \A j \in 1..Len(gen.spend) :
              /\ gen.spend[j].tx = gen.prev[k].spend.tx
              /\ gen.spend[j].log_data = gen.prev[k].spend.log_data

\* C18: of a chain of n steps and a schedule of n timeouts the tree holds
\* the fallback leaf and n step leaves; the leaf of step i has expected hash
\* chain[i], preimage chain[i+1] with SHA256(preimage) = expected hash, and
\* timeout schedule[i]; the fallback's timeout exceeds every step's.
ExpectedHash(script) == script[5]
RevealPreimage(script) == script[3]
LeafTimeout(script) == script[10]

PinSucceeded(env) == env.installed /\ env.pin

C19_HistoryOnlyWhenPinned ==
    [][last'.op = "put"
       => /\ Len(history') = Len(history) + (IF PinSucceeded(last'.env) THEN 1 ELSE 0)
          /\ \A i \in 1..Len(history') :
                DictGet(history'[i], "ipfs_hash", Missing) # EmptyStr]_vars

\* C20: a fetch that obtained and parsed a content stores it under the id
\* computed from it and returns it, whether or not that id is the handle's
\* prefix; a fetch that did not returns {} and stores nothing.
FetchedHandle == last.arg[1]
FetchedGot == last.arg[2]

C20_FetchMismatchNotFatal ==
    [][last'.op = "fetch"
       => IF last'.arg[2][1] = "content"
          THEN /\ last'.ret = JsonLoads(last'.arg[2][2])
               /\ BlockPath(ContentId(last'.ret)) \in DOMAIN db'
               /\ load_block(db', ContentId(last'.ret)) = last'.ret
          ELSE /\ last'.ret = PyDict(<<>>)
               /\ db' = db
               /\ history' = history
               /\ histFile' = histFile]_vars

C20_Witness ==
    /\ last.op = "fetch"
    /\ FetchedGot[1] = "content"
    /\ Prefix16(FetchedHandle) # ContentId(last.ret)
    /\ Prefix16(FetchedHandle) \in AllIds
    /\ Len(StepData(last.ret)) >= 2
    /\ last.io = "mismatch"
    /\ load_block(db, ContentId(last.ret)) = JsonLoads(FetchedGot[2])

\* C21: a block is processed at most once: a processing never finds the
\* block's proof export already written by an earlier one; no watcher step
\* changes proof_generated or proof_verified of a record whose
\* proof_generated is true, or touches a record whose challenged is not true.
WatcherOps == {"tickstart", "skip", "process", "tickend"}
Generated(rec) == Truthy(DictGet(rec, "proof_generated", PyNone))
Challenged(rec) == Truthy(DictGet(rec, "challenged", PyNone))

C21_ProcessedAtMostOnce ==
    [][/\ last'.op = "process"
          => /\ WithName(last'.file, "_proof.json") \notin DOMAIN db
             /\ Challenged(JsonLoads(db[last'.file]))
       /\ \A f \in BlockRecords(db) :
             /\ (Generated(JsonLoads(db[f])) /\ last'.op \in WatcherOps)
                => /\ Generated(JsonLoads(db'[f]))
                   /\ DictGet(JsonLoads(db'[f]), "proof_verified", Missing)
                         = DictGet(JsonLoads(db[f]), "proof_verified", Missing)
             /\ (~Challenged(JsonLoads(db[f])) /\ last'.op \in WatcherOps)
                => db'[f] = db[f]]_vars

\* C21 as amended: the watcher processes a block only while its stored
\* record has challenged true and proof_generated not true, and no watcher
\* step changes any other record; so a block is processed again only after
\* a put has rewritten its record.
C21_ProcessedOnlyWhileUnproved ==
    [][last'.op \in WatcherOps
       => \A f \in BlockRecords(db) :
             (Generated(JsonLoads(db[f])) \/ ~Challenged(JsonLoads(db[f])))
             => /\ db'[f] = db[f]
                /\ ~(last'.op = "process" /\ last'.file = f)]_vars

C21_Witness ==
    /\ last.op = "tickend"
    /\ eligible = {}
    /\ \E f \in BlockRecords(db) :
          /\ Generated(JsonLoads(db[f]))
          /\ DictGet(JsonLoads(db[f]), "proof_verified", Missing) = PyBool(FALSE)
          /\ LogOf(f) \notin DOMAIN db
    /\ \E f \in BlockRecords(db) : ~Challenged(JsonLoads(db[f]))

\* C22: between ticks, every record whose proof_generated is true has its
\* proof_verified recorded and its proof export and tree export on disk.
C22_NoHalfMutatedAtBoundary ==
    wpc = "idle"
    => \A f \in BlockRecords(db) :
          Generated(JsonLoads(db[f]))
          => /\ DictGet(JsonLoads(db[f]), "proof_verified", Missing) # Missing
             /\ WithName(f, "_proof.json") \in DOMAIN db
             /\ WithName(f, "_tree.json") \in DOMAIN db

====
